---- MODULE Spec2Model ----
(***************************************************************************)
(* A model of the lazy self-referential resolution engine of `strategize`: *)
(* the deferred value algebra (Pure, Ref, DefRef, Add, Sub, DefListAgg),   *)
(* fmap, Range, LockedList, RecRecord.__resolve__ / __strategize__ and     *)
(* SMInputContract.__strategize__.                                         *)
(*                                                                         *)
(* Every Python value is a node [t, n, p, kids]: t is the type tag, n an   *)
(* integer payload, p a sequence of strings (dict keys, the segments of a  *)
(* dotted path, a name) and kids the sequence of child nodes.              *)
(***************************************************************************)
EXTENDS Integers, Sequences, FiniteSets, TLC

VARIABLES
    rec,      \* the RecRecord being resolved (a dict node, insertion order)
    heap,     \* LockedList object id -> its _locked_draw
    queue,    \* the work queue of RecRecord.__resolve__
    order,    \* iteration order of set(self.keys()) for this record
    round,    \* number of strategize draws already made for this record
    pc,       \* "resolve", "draw", "done", "raised", or a call-level state
    phase,    \* "state" (the state schema) or "event" (init_state + event)
    event,    \* the event schema of the SMInputContract, NoneV for a creator
    output,   \* the example produced, NoneV before
    hist,     \* observations: initial record, frozen draws, per-pass data
    call      \* arguments and result of a directly called function

vars == <<rec, heap, queue, order, round, pc, phase, event, output, hist, call>>

(***************************** bounds **************************************)
\* longest list hypothesis' st.lists draws in the model
MaxListLen == 1
\* st.integers draws the integers at most this far from one of its bounds;
\* an unset bound is taken this far from the other one (from 0 if both are)
DrawSpan == 2
\* longest reference chain field0 -> field1 -> ... -> fieldk
MaxChain == 3
\* number of consecutive calls of __resolve__ on one record
PassCalls == 2
\* largest bound, value and amount of the directly called functions
MaxVal == 3
\* longest list handed to a directly called DefListAgg
MaxItems == 2

(***************************** nodes ***************************************)
Node(t, n, p, kids) == [t |-> t, n |-> n, p |-> p, kids |-> kids]

IntV(i)      == Node("int", i, <<>>, <<>>)
BoolV(b)     == Node("bool", IF b THEN 1 ELSE 0, <<>>, <<>>)
NoneV        == Node("None", 0, <<>>, <<>>)
StrV(s)      == Node("str", 0, <<s>>, <<>>)
FloatV(h)    == Node("float", h, <<>>, <<>>)        \* the float h / 2
TypeV(name)  == Node("type", 0, <<name>>, <<>>)     \* the type object itself
Dict(ks, vs) == Node("dict", 0, ks, vs)
RecRecordV(ks, vs) == Node("RecRecord", 0, ks, vs)
ListV(xs)    == Node("list", 0, <<>>, xs)
TupleV(xs)   == Node("tuple", 0, <<>>, xs)
Locked(xs)   == Node("Locked", 0, <<>>, xs)
LockedList(id, src) == Node("LockedList", id, <<>>, src)
Range(min, max)     == Node("Range", 0, <<>>, <<min, max>>)
Ref(path)    == Node("Ref", 0, path, <<>>)
DefRef(path) == Node("DefRef", 0, path, <<>>)
Pure(v)      == Node("Pure", 0, <<>>, <<v>>)
Exc(name)    == Node("EXC", 0, <<name>>, <<>>)      \* a raised exception

DeferredTags == {"Pure", "Ref", "DefRef", "Add", "Sub", "DefListAgg"}
IsDeferredVal(v) == v.t \in DeferredTags
IsExc(v) == v.t = "EXC"
IsDictLike(v) == v.t \in {"dict", "RecRecord"}
IsListLike(v) == v.t \in {"list", "Locked", "LockedList"}
IsNumber(v) == v.t \in {"int", "bool"}

pure(v) == IF IsDeferredVal(v) THEN v ELSE Pure(v)

Add(terms)  == Node("Add", 0, <<>>, [i \in 1..Len(terms) |-> pure(terms[i])])
Sub(a, b)   == Node("Sub", 0, <<>>, <<pure(a), pure(b)>>)

\* predicates of DefListAgg: lambda c: c[key], lambda _: True, lambda _: False
PredKey(k)  == Node("pred", 0, <<k>>, <<>>)
PredTrue    == Node("pred", 1, <<>>, <<>>)
PredFalse   == Node("pred", 0, <<>>, <<>>)
\* DefListAgg(sum, item_dep_ref, predicate); path = item_dep_ref.split('.')
DefListAgg(path, pred) == Node("DefListAgg", 0, path, <<pred>>)

(***************************** helpers *************************************)
IndexOf(ks, k) == CHOOSE i \in 1..Len(ks) : ks[i] = k
HasKey(d, k) == \E i \in 1..Len(d.p) : d.p[i] = k
Get(d, k) == d.kids[IndexOf(d.p, k)]
\* (mutant) the replacement is computed but never written back
Put_dropped(d, k, v) == d

\* self[k] = v on a dict that has the key k
Put(d, k, v) == [d EXCEPT !.kids = [i \in 1..Len(d.kids) |->
                    IF d.p[i] = k THEN v ELSE d.kids[i]]]

\* first exception of a sequence of nodes, in evaluation order
RECURSIVE FirstExc(_)
FirstExc(xs) ==
    IF xs = <<>> THEN NoneV
    ELSE IF IsExc(Head(xs)) THEN Head(xs) ELSE FirstExc(Tail(xs))

\* bool(v)
Truthy(v) ==
    CASE v.t = "bool" -> v.n = 1
      [] v.t = "int" -> v.n # 0
      [] v.t = "None" -> FALSE
      [] v.t \in {"dict", "RecRecord", "list", "Locked", "LockedList", "tuple"}
            -> v.kids # <<>>
      [] OTHER -> TRUE

(***************************** util.get_deep *******************************)
\* reduce(lambda d, k: d.get(k, {}), path.split('.'), d)
RECURSIVE get_deep(_, _)
get_deep(d, path) ==
    IF path = <<>> THEN d
    ELSE IF ~IsDictLike(d) THEN Exc("AttributeError")
    ELSE get_deep(IF HasKey(d, Head(path)) THEN Get(d, Head(path))
                  ELSE Dict(<<>>, <<>>), Tail(path))

(***************************** deferred values *****************************)
RECURSIVE resolve(_, _)

\* Pure.__resolve__
Pure_resolve(self, d) == self.kids[1]

\* (mutant) only the first segment of the path is followed
Ref_resolve_first(self, d) == get_deep(d, <<Head(self.p)>>)

\* Ref.__resolve__
Ref_resolve(self, d) == get_deep(d, self.p)

\* (mutant) DefRef resolves like Ref, also to a Range
DefRef_resolve_eager(self, d) == get_deep(d, self.p)

\* DefRef.__resolve__
DefRef_resolve(self, d) ==
    LET res == get_deep(d, self.p)
    IN  IF IsExc(res) THEN res
        ELSE IF res.t = "Range" THEN self ELSE res

\* sum(xs) for a sequence of already computed values: TypeError unless all
\* of them are numbers
RECURSIVE SumN(_)
SumN(xs) == IF xs = <<>> THEN 0 ELSE Head(xs).n + SumN(Tail(xs))
sum(xs) ==
    IF \A i \in 1..Len(xs) : IsNumber(xs[i]) THEN IntV(SumN(xs))
    ELSE Exc("TypeError")

\* Add.__resolve__: only TypeError is caught
Add_resolve(self, d) ==
    LET rs == [i \in 1..Len(self.kids) |-> resolve(self.kids[i], d)]
        e  == FirstExc(rs)
        r  == IF IsExc(e) THEN e ELSE sum(rs)
    IN  IF r = Exc("TypeError") THEN self ELSE r

\* (mutant) the operands are subtracted the wrong way round
Sub_resolve_swapped(self, d) ==
    LET a == resolve(self.kids[1], d)
        b == resolve(self.kids[2], d)
    IN  IF IsExc(a) \/ IsExc(b) THEN self
        ELSE IF IsNumber(a) /\ IsNumber(b) THEN IntV(b.n - a.n)
        ELSE self

\* Sub.__resolve__: every Exception is caught
Sub_resolve(self, d) ==
    LET a == resolve(self.kids[1], d)
        b == resolve(self.kids[2], d)
    IN  IF IsExc(a) \/ IsExc(b) THEN self
        ELSE IF IsNumber(a) /\ IsNumber(b) THEN IntV(a.n - b.n)
        ELSE self

\* iter(v): the items a for-loop over v sees, or TypeError
Iterate(v) ==
    CASE v.t \in {"list", "Locked", "LockedList", "tuple"} -> ListV(v.kids)
      [] IsDictLike(v) -> ListV([i \in 1..Len(v.p) |-> StrV(v.p[i])])
      \* the characters of a string: each behaves as a string item
      [] v.t = "str" -> ListV(IF v.p = <<"">> THEN <<>> ELSE <<v>>)
      [] OTHER -> Exc("TypeError")

\* self.predicate(item)
Predicate(pred, item) ==
    IF pred.p = <<>> THEN BoolV(pred.n = 1)
    ELSE IF ~IsDictLike(item) THEN Exc("TypeError")
    ELSE IF ~HasKey(item, pred.p[1]) THEN Exc("KeyError")
    ELSE Get(item, pred.p[1])

\* self.item_resolver(item)
ItemResolver(self, item) ==
    IF Len(self.p) = 1 THEN item ELSE Ref_resolve(Ref(Tail(self.p)), item)

Skip == Node("skip", 0, <<>>, <<>>)

\* (mutant) the predicate is not applied
AggItem_unfiltered(self, item) == ItemResolver(self, item)

\* what one item contributes to the generator handed to agg_func
AggItem(self, item) ==
    LET ok == Predicate(self.kids[1], item)
    IN  IF IsExc(ok) THEN ok
        ELSE IF ~Truthy(ok) THEN Skip
        ELSE ItemResolver(self, item)

\* DefListAgg.__resolve__ with agg_func = sum: every Exception is caught
DefListAgg_resolve(self, d) ==
    LET list_ref == IF Len(self.p) = 1 THEN Ref(self.p)
                    ELSE DefRef(<<self.p[1]>>)
        lst   == resolve(list_ref, d)
        items == IF IsExc(lst) THEN lst ELSE Iterate(lst)
        vals  == [i \in 1..Len(items.kids) |-> AggItem(self, items.kids[i])]
        r     == IF IsExc(items) THEN items
                 ELSE IF IsExc(FirstExc(vals)) THEN FirstExc(vals)
                 ELSE sum(SelectSeq(vals, LAMBDA x : x # Skip))
    IN  IF IsExc(r) THEN self ELSE r

\* v.__resolve__(d) for a DeferredVal v
resolve(v, d) ==
    CASE v.t = "Pure" -> Pure_resolve(v, d)
      [] v.t = "Ref" -> Ref_resolve(v, d)
      [] v.t = "DefRef" -> DefRef_resolve(v, d)
      [] v.t = "Add" -> Add_resolve(v, d)
      [] v.t = "Sub" -> Sub_resolve(v, d)
      [] v.t = "DefListAgg" -> DefListAgg_resolve(v, d)

\* lambda v: pure(v).__resolve__(self), applied by fmap to every leaf
ResolveLeaf(v, d) == resolve(pure(v), d)

(***************************** recursion_schemes.fmap **********************)
\* fmap(lambda v: pure(v).__resolve__(d), obj) with the LockedList objects in
\* heap h; the result is [v |-> value or exception, h |-> the heap after]
RECURSIVE fmap(_, _, _), fmapSeq(_, _, _)

fmapSeq(d, xs, h) ==
    IF xs = <<>> THEN [vs |-> <<>>, h |-> h]
    ELSE LET r    == fmap(d, Head(xs), h)
             rest == fmapSeq(d, Tail(xs), r.h)
         IN  [vs |-> <<r.v>> \o rest.vs, h |-> rest.h]

\* (mutant) the leaves of a mapping are resolved against that mapping
fmapKids_relative(d, obj, h, t) ==
    LET r == fmapSeq(IF IsDictLike(obj) THEN obj ELSE d, obj.kids, h)
        e == FirstExc(r.vs)
    IN  [v |-> IF IsExc(e) THEN e ELSE Node(t, 0, obj.p, r.vs), h |-> r.h]

\* the container of tag t rebuilt from the mapped children of obj
fmapKids(d, obj, h, t) ==
    LET r == fmapSeq(d, obj.kids, h)
        e == FirstExc(r.vs)
    IN  [v |-> IF IsExc(e) THEN e ELSE Node(t, 0, obj.p, r.vs), h |-> r.h]

\* (mutant) the mapped bounds are handed to Range the wrong way round
Range_fmap_swapped(d, self, h) ==
    LET r == fmapKids(d, self, h, "Range")
    IN  IF IsExc(r.v) THEN r
        ELSE [r EXCEPT !.v = Range(r.v.kids[2], r.v.kids[1])]

\* Range.__fmap__
Range_fmap(d, self, h) == fmapKids(d, self, h, "Range")

\* LockedList.Locked.__fmap__
Locked_fmap(d, self, h) == fmapKids(d, self, h, "Locked")

\* LockedList.__fmap__
LockedList_fmap(d, self, h) ==
    LET res == Locked_fmap(d, h[self.n], h)
    IN  IF IsExc(res.v) THEN res
        ELSE [v |-> res.v, h |-> [res.h EXCEPT ![self.n] = res.v]]

fmap(d, obj, h) ==
    CASE obj.t = "Range" -> Range_fmap(d, obj, h)
      [] obj.t = "LockedList" -> LockedList_fmap(d, obj, h)
      [] obj.t = "Locked" -> Locked_fmap(d, obj, h)
      [] obj.t = "list" -> fmapKids(d, obj, h, "list")
      [] IsDictLike(obj) -> fmapKids(d, obj, h, "dict")
      [] OTHER -> [v |-> ResolveLeaf(obj, d), h |-> h]

(***************************** recursion_schemes.strategize ****************)
\* the 8 chained .flatmap rounds of RecRecord.__strategize__
Rounds == 8

\* strategize returned None where a strategy is needed
NoStrategy == Node("NoStrategy", 0, <<>>, <<>>)

RECURSIVE SeqProduct(_)
SeqProduct(ss) ==
    IF ss = <<>> THEN {<<>>}
    ELSE {<<x>> \o r : x \in Head(ss), r \in SeqProduct(Tail(ss))}

\* st.integers(min_value, max_value), None for an open side
st_integers(min, max) ==
    LET lo == IF min.t # "None" THEN min.n
              ELSE IF max.t # "None" THEN max.n - DrawSpan ELSE 0 - DrawSpan
        hi == IF max.t # "None" THEN max.n
              ELSE IF min.t # "None" THEN min.n + DrawSpan ELSE DrawSpan
    IN  IF lo > hi THEN {Exc("InvalidArgument")}
        ELSE {IntV(i) : i \in {j \in lo..hi :
                                j <= lo + DrawSpan \/ j >= hi - DrawSpan}}

\* st.lists(elements): lists of at most MaxListLen draws of elements
st_lists(elements) == UNION {[1..k -> elements] : k \in 0..MaxListLen}

\* (mutant) max_value is not passed on
Range_strategize_no_max(self) ==
    IF \A i \in 1..2 : self.kids[i].t \in {"None", "int", "bool"}
    THEN st_integers(self.kids[1], NoneV)
    ELSE {self}

\* Range.__strategize__
Range_strategize(self) ==
    IF \A i \in 1..2 : self.kids[i].t \in {"None", "int", "bool"}
    THEN st_integers(self.kids[1], self.kids[2])
    ELSE {self}

\* Range.__call__ on a number v
Range_call(self, v) ==
    LET min == self.kids[1]
        max == self.kids[2]
        minres == IF min.t # "None" THEN v.n <= min.n ELSE TRUE
        maxres == IF max.t # "None" THEN v.n >= max.n ELSE TRUE
    IN  IF ~minres /\ maxres THEN Exc("Invalid") ELSE v

\* LockedList.__resolve__
LockedList_resolve(self, h) == h[self.n]

\* (mutant) the list is drawn again from its source elements
LockedList_strategize_redraws(self, h) ==
    {Locked(xs) : xs \in st_lists({self.kids[i] : i \in 1..Len(self.kids)})}

\* LockedList.__strategize__: st.just(self._locked_draw)
LockedList_strategize(self, h) == {h[self.n]}

\* the values the strategy strategize(obj) can draw
RECURSIVE strategize(_, _), RecRecord_strategize(_, _)
strategize(obj, h) ==
    CASE IsDeferredVal(obj) -> {obj}
      [] obj.t = "Range" -> Range_strategize(obj)
      [] obj.t = "RecRecord" -> RecRecord_strategize(obj, h)
      [] obj.t = "Locked" -> {obj}
      [] obj.t = "LockedList" -> LockedList_strategize(obj, h)
      [] obj.t \in {"int", "bool", "str"} -> {obj}
      [] obj = TypeV("int") -> st_integers(NoneV, NoneV)
      [] obj = TypeV("float") -> {FloatV(i) : i \in (0 - DrawSpan)..DrawSpan}
      [] obj = TypeV("str") -> {StrV(""), StrV("a")}
      [] obj = TypeV("bool") -> {BoolV(TRUE), BoolV(FALSE)}
      [] obj.t = "dict" ->
            {Dict(obj.p, vs) : vs \in SeqProduct(
                [i \in 1..Len(obj.kids) |-> strategize(obj.kids[i], h)])}
      [] obj.t = "list" ->
            {ListV(xs) : xs \in st_lists(
                UNION {strategize(obj.kids[i], h) : i \in 1..Len(obj.kids)})}
      \* no branch of the if chain is taken: the function returns None
      [] obj.t \in {"None", "float", "tuple"} -> {NoStrategy}

\* a draw that cannot be made: some strategy of the tree is missing or invalid
RECURSIVE Bad(_)
Bad(v) == \/ IsExc(v)
          \/ v = NoStrategy
          \/ \E i \in 1..Len(v.kids) : Bad(v.kids[i])

(***************************** records under test **************************)
Perms(ks) ==
    {o \in [1..Len(ks) -> {ks[i] : i \in 1..Len(ks)}] :
        \A i, j \in 1..Len(ks) : o[i] = o[j] => i = j}

FieldName(i) == "field" \o ToString(i)

\* field0 = Ref('field1'), ..., field(k-1) = Ref('fieldk'), fieldk = 7
ChainRecord(k) ==
    RecRecordV([i \in 1..(k + 1) |-> FieldName(i - 1)],
               [i \in 1..(k + 1) |-> IF i = k + 1 THEN IntV(7)
                                     ELSE Ref(<<FieldName(i)>>)])

\* a = Ref('b'), b = Ref('a')
CycleRecord == RecRecordV(<<"a", "b">>, <<Ref(<<"b">>), Ref(<<"a">>)>>)

\* RecRecord(a=Range(2, 4), b=Range(bound('a'), 10)) of the RecRecord
\* docstring, and the same with the reference as b's max
DependentRecords ==
    {RecRecordV(<<"a", "b">>, <<Range(IntV(2), IntV(4)), b>>) :
        b \in {Range(DefRef(<<"a">>), IntV(10)), Range(Ref(<<"a">>), IntV(10)),
               Range(IntV(3), DefRef(<<"a">>)), Range(IntV(3), Ref(<<"a">>)),
               Range(NoneV, DefRef(<<"a">>)), Range(DefRef(<<"a">>), NoneV)}}

\* RecRecord(r=Range(min, max)) for unset and concrete bounds
RangeRecords ==
    {RecRecordV(<<"r">>, <<Range(min, max)>>) :
        min \in {NoneV, IntV(1), IntV(3)}, max \in {NoneV, IntV(1), IntV(3)}}

\* self[k] = m.v, unless computing m raised
WriteBack(r, k, m) ==
    [rec  |-> IF IsExc(m.v) THEN r ELSE Put(r, k, m.v),
     heap |-> m.h,
     exc  |-> IsExc(m.v)]

\* the body of the while loop of RecRecord.__resolve__ for the key k:
\* self[k] = fmap(lambda v: pure(v).__resolve__(self), self[k])
ResolveField(r, h, k) == WriteBack(r, k, fmap(r, Get(r, k), h))

\* RecRecord.__resolve__ with the queue q: the loop run until q is empty
RECURSIVE RecRecord_resolve(_, _, _)

\* the rest of the loop after an iteration that left s, unless it raised
ResolveRest(s, q) ==
    IF s.exc THEN s ELSE RecRecord_resolve(s.rec, s.heap, q)

RecRecord_resolve(r, h, q) ==
    IF q = <<>> THEN [rec |-> r, heap |-> h, exc |-> FALSE]
    ELSE ResolveRest(ResolveField(r, h, Head(q)), Tail(q))

\* the examples of the chain of RecRecord.__strategize__ from its term n on,
\* for the key order o: pass is what the __resolve__ of term n returned
RECURSIVE StrategizeChain(_, _, _)
StrategizeChain(pass, o, n) ==
    IF pass.exc THEN {Exc("AttributeError")}
    ELSE UNION {IF Bad(s) THEN {Exc("InvalidArgument")}
                ELSE IF n = Rounds THEN {s}
                ELSE StrategizeChain(
                        RecRecord_resolve(RecRecordV(s.p, s.kids), pass.heap, o),
                        o, n + 1) :
                s \in strategize(Dict(pass.rec.p, pass.rec.kids), pass.heap)}

\* RecRecord.__strategize__ of a record that is a node of another schema
RecRecord_strategize(self, h) ==
    UNION {StrategizeChain(RecRecord_resolve(self, h, o), o, 0) :
            o \in Perms(self.p)}

\* the LockedList sources of a record, indexed by object id
RECURSIVE LockedSources(_)
LockedSources(v) ==
    (IF v.t = "LockedList" THEN {v} ELSE {})
        \cup UNION {LockedSources(v.kids[i]) : i \in 1..Len(v.kids)}

\* LockedList.__init__: the draws st.lists(one_of(strategize(x) ...)).example()
\* can freeze
LockedList_init(src) ==
    {Locked(xs) : xs \in st_lists(
        UNION {strategize(src[i], <<>>) : i \in 1..Len(src)})}

\* the heaps construction can leave for a schema with LockedList objects 1..n
InitHeaps(schema, n) ==
    SeqProduct([i \in 1..n |-> LockedList_init(
        (CHOOSE l \in LockedSources(schema) : l.n = i).kids)])

\* a record whose aggregate and reference read a LockedList of literal items
LockedRecord ==
    RecRecordV(<<"items", "total", "alias">>,
        <<LockedList(1, <<Dict(<<"amount", "ok">>, <<IntV(5), TypeV("bool")>>)>>),
          DefListAgg(<<"items", "amount">>, PredKey("ok")),
          Ref(<<"items">>)>>)

\* a record whose LockedList holds a reference to a sibling field
LockedRefRecord ==
    RecRecordV(<<"items", "x">>, <<LockedList(1, <<Ref(<<"x">>)>>), IntV(7)>>)

\* test_credit_input_contract of example.py: its state_schema ...
ExampleState ==
    RecRecordV(<<"payments", "charges", "balance">>,
        <<LockedList(1, <<Dict(<<"amount", "payment_status">>,
                               <<Range(IntV(4), IntV(5)), TypeV("bool")>>)>>),
          LockedList(2, <<Dict(<<"amount", "charge_status">>,
                               <<Range(IntV(10), IntV(20)), TypeV("bool")>>)>>),
          Sub(DefListAgg(<<"charges", "amount">>, PredKey("charge_status")),
              DefListAgg(<<"payments", "amount">>, PredKey("payment_status")))>>)

\* ... and its event_schema
ExampleEvent ==
    Dict(<<"amount">>, <<Range(NoneV, Ref(<<"init_state", "balance">>))>>)

(***************************** the generation run **************************)
\* a direct call of one function: its name, arguments and result
Call(fn, args, res) == [fn |-> fn, args |-> args, res |-> res]
NoCall == Call("", <<>>, NoneV)

\* strategize(schema) about to run RecRecord.__strategize__ on record r
Start(name, r, n, ev) ==
    /\ rec = r
    /\ heap \in InitHeaps(r, n)
    /\ order \in Perms(r.p)
    /\ queue = order
    /\ round = 0
    /\ pc = "resolve"
    /\ phase = "state"
    /\ event = ev
    /\ output = NoneV
    /\ hist = [name |-> name, rec0 |-> r, frozen |-> heap, passes |-> 0,
               popped |-> 0]
    /\ call = NoCall

Init ==
    \/ \E k \in 1..MaxChain : Start("chain", ChainRecord(k), 0, NoneV)
    \/ Start("cycle", CycleRecord, 0, NoneV)
    \/ \E r \in DependentRecords : Start("dependent", r, 0, NoneV)
    \/ \E r \in RangeRecords : Start("range", r, 0, NoneV)
    \/ Start("locked", LockedRecord, 1, NoneV)
    \/ Start("lockedref", LockedRefRecord, 1, NoneV)

\* (mutant) the lambda resolves against the record as it was constructed,
\* not against the record being rewritten
RecRecord_resolve_step_prepass ==
    /\ pc = "resolve"
    /\ queue # <<>>
    /\ \E node_to_resolve \in {Head(queue)} :
       \E m \in {fmap(hist.rec0, Get(rec, node_to_resolve), heap)} :
           /\ queue' = Tail(queue)
           /\ rec' = IF IsExc(m.v) THEN rec ELSE Put(rec, node_to_resolve, m.v)
           /\ heap' = m.h
           /\ pc' = IF IsExc(m.v) THEN "raised" ELSE pc
           /\ hist' = [hist EXCEPT !.popped = @ + 1,
                          !.passes = IF Tail(queue) = <<>> THEN @ + 1 ELSE @]
    /\ UNCHANGED <<order, round, phase, event, output, call>>

\* (mutant) the TODO of RecRecord.__resolve__ done without its cycle token:
\* a key whose value is not fully resolved goes back on the queue
RecRecord_resolve_step_requeue ==
    /\ pc = "resolve"
    /\ queue # <<>>
    /\ \E node_to_resolve \in {Head(queue)} :
       \E s \in {ResolveField(rec, heap, node_to_resolve)} :
           /\ queue' = IF IsDeferredVal(Get(s.rec, node_to_resolve))
                        THEN Tail(queue) \o <<node_to_resolve>>
                        ELSE Tail(queue)
           /\ rec' = s.rec
           /\ heap' = s.heap
           /\ pc' = IF s.exc THEN "raised" ELSE pc
           /\ hist' = [hist EXCEPT !.popped = IF @ < 9 THEN @ + 1 ELSE @,
                          !.passes = IF queue' = <<>> THEN @ + 1 ELSE @]
    /\ UNCHANGED <<order, round, phase, event, output, call>>

\* one iteration of the while loop of RecRecord.__resolve__
RecRecord_resolve_step ==
    /\ pc = "resolve"
    /\ queue # <<>>
    /\ \E node_to_resolve \in {Head(queue)} :
       \E s \in {ResolveField(rec, heap, node_to_resolve)} :
           /\ queue' = Tail(queue)
           /\ rec' = s.rec
           /\ heap' = s.heap
           /\ pc' = IF s.exc THEN "raised" ELSE pc
           /\ hist' = [hist EXCEPT !.popped = @ + 1,
                          !.passes = IF Tail(queue) = <<>> THEN @ + 1 ELSE @]
    /\ UNCHANGED <<order, round, phase, event, output, call>>

\* the draw s of strategize(dict(**self)) after a pass: it raises, or the next
\* .flatmap lambda (if one is left) builds RecRecord(**s), or s is the example
Deliver(s) ==
    IF Bad(s)
    THEN /\ pc' = "raised"
         /\ UNCHANGED <<rec, queue, round, output>>
    ELSE IF round < Rounds
    THEN /\ rec' = RecRecordV(s.p, s.kids)
         /\ queue' = order
         /\ round' = round + 1
         /\ UNCHANGED <<pc, output>>
    ELSE /\ output' = s
         /\ pc' = IF phase = "state" /\ event # NoneV THEN "flatmap"
                  ELSE "done"
         /\ UNCHANGED <<rec, queue, round>>

\* the pass has returned dict(**self): strategize of that dict draws
RecRecord_strategize_draw ==
    /\ pc = "resolve"
    /\ queue = <<>>
    /\ \E s \in strategize(Dict(rec.p, rec.kids), heap) : Deliver(s)
    /\ hist' = [hist EXCEPT !.popped = 0]
    /\ UNCHANGED <<heap, order, phase, event, call>>

\* one term of the chain of RecRecord.__strategize__ as a single step:
\* strategize(<record>.__resolve__()), a whole pass and the draw after it
RecRecord_strategize_round ==
    /\ pc = "resolve"
    /\ queue = order
    /\ \E pass \in {RecRecord_resolve(rec, heap, queue)} :
           IF pass.exc
           THEN /\ pc' = "raised"
                /\ UNCHANGED <<rec, heap, queue, round, output, hist>>
           ELSE /\ heap' = pass.heap
                /\ hist' = [hist EXCEPT !.passes = @ + 1]
                /\ \E s \in strategize(Dict(pass.rec.p, pass.rec.kids), pass.heap) :
                      Deliver(s)
    /\ UNCHANGED <<order, phase, event, call>>

\* SMInputContract.__strategize__: the flatmap over the drawn state s
SMInputContract_flatmap ==
    /\ pc = "flatmap"
    /\ rec' = RecRecordV(<<"init_state", "event">>, <<output, event>>)
    /\ order' \in Perms(<<"init_state", "event">>)
    /\ queue' = order'
    /\ round' = 0
    /\ pc' = "resolve"
    /\ phase' = "event"
    /\ output' = NoneV
    /\ hist' = [hist EXCEPT !.popped = 0, !.passes = 0]
    /\ UNCHANGED <<heap, event, call>>

Next == RecRecord_resolve_step \/ RecRecord_strategize_draw

Spec == Init /\ [][Next]_vars

\* strategize(test_credit_input_contract)
InitExample == Start("example", ExampleState, 2, ExampleEvent)

NextExample ==
    \/ RecRecord_strategize_round
    \/ SMInputContract_flatmap

SpecExample == InitExample /\ [][NextExample]_vars

\* the generation variables while a single function is called
NoRun(name) ==
    /\ rec = RecRecordV(<<>>, <<>>)
    /\ heap = <<>>
    /\ order = <<>>
    /\ queue = <<>>
    /\ round = 0
    /\ pc = "call"
    /\ phase = "call"
    /\ event = NoneV
    /\ output = NoneV
    /\ hist = [name |-> name, rec0 |-> rec, frozen |-> heap, passes |-> 0,
               popped |-> 0]

Bounds == {NoneV} \cup {IntV(i) : i \in 0..MaxVal}

\* Range(min, max)(v)
InitRangeCall ==
    /\ NoRun("Range.__call__")
    /\ \E min \in Bounds, max \in Bounds, v \in 0..(MaxVal + 1) :
          call = Call("Range.__call__", <<Range(min, max), IntV(v)>>, NoneV)

\* the items {'amount': n, 'ok': b} of a concrete list
Items == {Dict(<<"amount", "ok">>, <<IntV(n), BoolV(b)>>) :
            n \in 0..MaxVal, b \in BOOLEAN}

\* DefListAgg(sum, 'items.amount', predicate).__resolve__(d) for a record d
\* with a concrete list under 'items'
InitAggCall ==
    /\ NoRun("DefListAgg.__resolve__")
    /\ \E k \in 0..MaxItems, t \in {"list", "Locked"},
          pred \in {PredKey("ok"), PredTrue, PredFalse} :
          \E xs \in [1..k -> Items] :
             call = Call("DefListAgg.__resolve__",
                         <<DefListAgg(<<"items", "amount">>, pred),
                           RecRecordV(<<"items">>, <<Node(t, 0, <<>>, xs)>>)>>,
                         NoneV)

InitCall == InitRangeCall \/ InitAggCall

Range_call_step ==
    /\ pc = "call"
    /\ call.fn = "Range.__call__"
    /\ call' = [call EXCEPT !.res = Range_call(call.args[1], call.args[2])]
    /\ pc' = "returned"
    /\ UNCHANGED <<rec, heap, queue, order, round, phase, event, output, hist>>

DefListAgg_resolve_step ==
    /\ pc = "call"
    /\ call.fn = "DefListAgg.__resolve__"
    /\ call' = [call EXCEPT !.res = resolve(call.args[1], call.args[2])]
    /\ pc' = "returned"
    /\ UNCHANGED <<rec, heap, queue, order, round, phase, event, output, hist>>

NextCall == Range_call_step \/ DefListAgg_resolve_step

SpecCall == InitCall /\ [][NextCall]_vars

(***************************** repeated passes *****************************)
\* nodes without any deferred value: literals, a type marker, sequences,
\* nested mappings and Ranges with unset or concrete bounds
FreeNodes ==
    {IntV(1), StrV("s"), BoolV(TRUE), FloatV(3), NoneV, TypeV("int"),
     Range(IntV(1), IntV(3)), Range(NoneV, IntV(2)),
     ListV(<<IntV(1), Range(IntV(0), NoneV)>>),
     Dict(<<"x">>, <<ListV(<<StrV("s")>>)>>),
     RecRecordV(<<"x", "r">>, <<IntV(2), Range(IntV(1), IntV(1))>>)}

\* RecRecord(a=u, b=v) without cross-field references
ReferenceFreeRecords ==
    {RecRecordV(<<"a", "b">>, <<u, v>>) : u \in FreeNodes, v \in FreeNodes}

\* a nested mapping of class t ("dict" or "RecRecord") that has its own x and
\* references x and inner.x of the top-level record
NestedInner(t) ==
    Node(t, 0, <<"x", "y", "z", "w", "l", "r">>,
         <<IntV(2), Ref(<<"x">>), DefRef(<<"x">>), Ref(<<"inner", "x">>),
           ListV(<<Ref(<<"x">>)>>), Range(DefRef(<<"x">>), Ref(<<"inner", "x">>))>>)

\* the same two levels down
NestedDeep(t) ==
    Node(t, 0, <<"x", "deep">>,
         <<IntV(2), Node(t, 0, <<"x", "y", "w">>,
                         <<IntV(3), Ref(<<"x">>), Ref(<<"inner", "x">>)>>)>>)

\* RecRecord(x=1, inner=...) with references inside the nested containers
NestedRecords ==
    {RecRecordV(<<"x", "inner">>, <<IntV(1), inner>>) :
        inner \in {NestedInner("dict"), NestedInner("RecRecord"),
                   NestedDeep("dict"), NestedDeep("RecRecord")}}

\* RecRecord(x=1, items=LockedList([e])) for an element e, a dict or a
\* RecRecord, that has its own x and references x
NestedLockedRecords ==
    {RecRecordV(<<"x", "items">>,
        <<IntV(1), LockedList(1, <<Node(t, 0, <<"x", "y">>,
                                        <<IntV(2), Ref(<<"x">>)>>)>>)>>) :
        t \in {"dict", "RecRecord"}}

\* record r, with LockedList objects 1..n, about to be resolved by direct
\* calls r.__resolve__(); call.args collects the dicts the calls return
StartPass(name, r, n) ==
    /\ rec = r
    /\ heap \in InitHeaps(r, n)
    /\ order \in Perms(r.p)
    /\ queue = order
    /\ round = 0
    /\ pc = "resolve"
    /\ phase = "pass"
    /\ event = NoneV
    /\ output = NoneV
    /\ hist = [name |-> name, rec0 |-> r, frozen |-> heap, passes |-> 0,
               popped |-> 0]
    /\ call = Call("RecRecord.__resolve__", <<>>, NoneV)

\* the queue has drained: __resolve__ returns dict(**self), and the record is
\* resolved again until PassCalls calls have been made
RecRecord_resolve_return ==
    /\ pc = "resolve"
    /\ phase = "pass"
    /\ queue = <<>>
    /\ call' = [call EXCEPT !.args = Append(@, Dict(rec.p, rec.kids)),
                            !.res = Dict(rec.p, rec.kids)]
    /\ IF Len(call.args) + 1 < PassCalls
       THEN queue' = order /\ pc' = pc
       ELSE queue' = queue /\ pc' = "returned"
    /\ hist' = [hist EXCEPT !.popped = 0]
    /\ UNCHANGED <<rec, heap, order, round, phase, event, output>>

InitPass ==
    \/ \E r \in ReferenceFreeRecords : StartPass("free", r, 0)
    \/ \E r \in NestedRecords : StartPass("nested", r, 0)
    \/ \E r \in NestedLockedRecords : StartPass("nested", r, 1)

NextPass == RecRecord_resolve_step \/ RecRecord_resolve_return

SpecPass == InitPass /\ [][NextPass]_vars

(***************************** direct calls ********************************)
\* values a context holds under a key
Vals ==
    {IntV(5), Range(IntV(1), IntV(3)), StrV("s"), NoneV,
     ListV(<<IntV(1), IntV(2)>>), Ref(<<"m", "b">>), Dict(<<>>, <<>>)}

\* the contexts {'a': v, 'm': {'b': w, 'r': Range(0, 1)}} and the empty one
Contexts ==
    {RecRecordV(<<"a", "m">>,
                <<v, Dict(<<"b", "r">>, <<w, Range(IntV(0), IntV(1))>>)>>) :
        v \in Vals, w \in Vals}
    \cup {RecRecordV(<<>>, <<>>)}

\* path.split('.') of the paths 'a', 'm', 'a.b', 'm.b', 'm.r', 'm.z', 'z',
\* 'z.b', 'm.b.c' and ''
Paths ==
    {<<"a">>, <<"m">>, <<"a", "b">>, <<"m", "b">>, <<"m", "r">>, <<"m", "z">>,
     <<"z">>, <<"z", "b">>, <<"m", "b", "c">>, <<"">>}

\* deferred values of every class
Exprs ==
    {Pure(v) : v \in Vals}
    \cup UNION {{Ref(q), DefRef(q), Add(<<Ref(q), IntV(1)>>),
                 Sub(Ref(q), IntV(1)), Sub(IntV(9), DefRef(q)),
                 DefListAgg(q, PredTrue), DefListAgg(q, PredKey("b"))} :
                q \in Paths}

\* v.__resolve__(d)
InitResolveCall ==
    /\ NoRun("__resolve__")
    /\ \E v \in Exprs, d \in Contexts :
          call = Call("__resolve__", <<v, d>>, NoneV)

\* objects handed to strategize
Objects ==
    {IntV(i) : i \in 0..MaxVal} \cup {FloatV(i) : i \in 0..MaxVal}
    \cup {StrV(""), StrV("s"), BoolV(TRUE), BoolV(FALSE), NoneV,
          TupleV(<<>>), TupleV(<<IntV(1)>>),
          TypeV("int"), TypeV("float"), TypeV("str"), TypeV("bool"),
          Ref(<<"a">>), Range(IntV(1), IntV(3)), Range(Ref(<<"a">>), NoneV),
          ListV(<<IntV(1), TypeV("bool")>>),
          Dict(<<"a", "b">>, <<IntV(1), Range(IntV(0), IntV(1))>>),
          Dict(<<"a">>, <<NoneV>>)}

\* strategize(obj)
InitStrategizeCall ==
    /\ NoRun("strategize")
    /\ \E obj \in Objects : call = Call("strategize", <<obj>>, NoneV)

InitApply == InitResolveCall \/ InitStrategizeCall

DeferredVal_resolve_step ==
    /\ pc = "call"
    /\ call.fn = "__resolve__"
    /\ call' = [call EXCEPT !.res = resolve(call.args[1], call.args[2])]
    /\ pc' = "returned"
    /\ UNCHANGED <<rec, heap, queue, order, round, phase, event, output, hist>>

\* strategize(obj) returns; res is None (NoStrategy) or a draw of the strategy
strategize_step ==
    /\ pc = "call"
    /\ call.fn = "strategize"
    /\ \E s \in strategize(call.args[1], <<>>) : call' = [call EXCEPT !.res = s]
    /\ pc' = "returned"
    /\ UNCHANGED <<rec, heap, queue, order, round, phase, event, output, hist>>

NextApply == DeferredVal_resolve_step \/ strategize_step

SpecApply == InitApply /\ [][NextApply]_vars

\* the interpreter runs the generation to its end: no step waits on anything
FairSpec == Spec /\ WF_vars(Next)

(***************************** properties **********************************)
\* a node that is, or still contains, a deferred value or a Range
RECURSIVE HasDeferred(_)
HasDeferred(v) ==
    \/ IsDeferredVal(v)
    \/ v.t = "Range"
    \/ \E i \in 1..Len(v.kids) : HasDeferred(v.kids[i])

ChainLen == Len(hist.rec0.p) - 1

Terminated == pc \in {"done", "raised"}

\* the queue of a pass is what is left of the field names, each popped once
C4_QueueInv ==
    /\ Len(order) = Len(rec.p)
    /\ pc = "resolve" => /\ hist.popped <= Len(order)
                         /\ queue = SubSeq(order, hist.popped + 1, Len(order))
    /\ round <= 8
    /\ hist.passes <= 9
    /\ pc = "done" => hist.passes = 9 /\ round = 8

C5_CycleReported ==
    hist.name = "cycle" => (pc # "done" \/ ~HasDeferred(output))

\* the field b of the dependent record as written in the schema
DependentB == Get(hist.rec0, "b")
IsReference(v) == v.t \in {"Ref", "DefRef"}
UsesDefRef == \E i \in 1..2 : DependentB.kids[i].t = "DefRef"

\* a and b of record o are concrete and b respects its bounds, a reference
\* to a standing for the value of a
BoundHolds(o) ==
    LET a  == Get(o, "a")
        b  == Get(o, "b")
        lo == DependentB.kids[1]
        hi == DependentB.kids[2]
    IN  /\ a.t = "int" /\ b.t = "int"
        /\ a.n \in 2..4
        /\ IsReference(lo) => b.n >= a.n
        /\ lo.t = "int" => b.n >= lo.n
        /\ IsReference(hi) => b.n <= a.n
        /\ hi.t = "int" => b.n <= hi.n

\* C6 (as claimed): whichever kind of reference to a bounds b, the final
\* output has concrete a and b with the bound satisfied
C6_AnyReference ==
    hist.name = "dependent" /\ pc = "done" => BoundHolds(output)

\* a strategize draw of the record that did not raise
DrawStep == pc = "resolve" /\ queue = <<>> /\ pc' # "raised"
\* the dict that draw produced
Drawn == IF pc = "done" THEN output ELSE rec

\* C6 (amended): when the bound of b is a DefRef to a, b stays the Range node
\* of the schema while a is not a number, a draw made while a is not a number
\* yields b itself, a draw made once a is a number yields an integer b within
\* its bounds, and every output has concrete a and b with the bound satisfied
C6_DefRefBound ==
    /\ [](hist.name = "dependent" /\ UsesDefRef =>
            /\ pc = "resolve" /\ ~IsNumber(Get(rec, "a"))
                  => Get(rec, "b") = DependentB
            /\ pc = "done" => BoundHolds(output))
    /\ [][hist.name = "dependent" /\ UsesDefRef /\ DrawStep =>
            IF IsNumber(Get(rec, "a"))
            THEN BoundHolds(Drawn')
            ELSE Get(Drawn', "b") = Get(rec, "b") /\ Get(rec, "b").t = "Range"
         ]_vars

\* b = Range(DefRef('a'), 10) drawn at least as large as a drawn a = 3
C6_Witness ==
    /\ hist.name = "dependent"
    /\ DependentB = Range(DefRef(<<"a">>), IntV(10))
    /\ pc = "done"
    /\ Get(output, "a") = IntV(3)
    /\ Get(output, "b") = IntV(5)

ConcreteBounds(r) ==
    r.t = "Range" /\ \A i \in 1..2 : r.kids[i].t \in {"None", "int"}
WithinBounds(v, r) ==
    /\ v.t = "int"
    /\ r.kids[1].t = "int" => r.kids[1].n <= v.n
    /\ r.kids[2].t = "int" => v.n <= r.kids[2].n

\* C7: the draw of a Range whose bounds are unset or concrete numbers is an
\* integer v with min <= v (min set) and v <= max (max set)
C7_RangeDraw ==
    [][DrawStep =>
        \A i \in 1..Len(rec.kids) :
            ConcreteBounds(rec.kids[i]) => WithinBounds(Drawn'.kids[i], rec.kids[i])
      ]_vars

\* Range(1, 3) drawn as 2
C7_Witness ==
    /\ hist.name = "range"
    /\ hist.rec0.kids[1] = Range(IntV(1), IntV(3))
    /\ round = 1
    /\ rec.kids[1] = IntV(2)

\* sum of item.amount over the items of a list whose flag is true
RECURSIVE FilteredSum(_, _)
FilteredSum(items, flag) ==
    IF items = <<>> THEN 0
    ELSE (IF Get(Head(items), flag) = BoolV(TRUE)
          THEN Get(Head(items), "amount").n ELSE 0)
         + FilteredSum(Tail(items), flag)

AmountsWithin(items, lo, hi) ==
    \A i \in 1..Len(items) :
        /\ Get(items[i], "amount").t = "int"
        /\ Get(items[i], "amount").n \in lo..hi

\* C1: every example of strategize(test_credit_input_contract) has payment
\* amounts in [4,5], charge amounts in [10,20], balance equal to the sum of
\* the charges with charge_status minus the sum of the payments with
\* payment_status of the lists in the example, and event.amount <= balance
C1_Example ==
    hist.name = "example" /\ pc = "done" =>
        LET state    == Get(output, "init_state")
            payments == Get(state, "payments").kids
            charges  == Get(state, "charges").kids
            balance  == Get(state, "balance")
            amount   == Get(Get(output, "event"), "amount")
        IN  /\ AmountsWithin(payments, 4, 5)
            /\ AmountsWithin(charges, 10, 20)
            /\ balance = IntV(FilteredSum(charges, "charge_status")
                              - FilteredSum(payments, "payment_status"))
            /\ amount.t = "int"
            /\ amount.n <= balance.n

\* an example with a counted charge of 20, a counted payment of 4, the
\* balance 16 and an event amount below the balance
C1_Witness ==
    /\ hist.name = "example"
    /\ pc = "done"
    /\ Get(Get(output, "init_state"), "charges").kids
          = <<Dict(<<"amount", "charge_status">>, <<IntV(20), BoolV(TRUE)>>)>>
    /\ Get(Get(output, "init_state"), "payments").kids
          = <<Dict(<<"amount", "payment_status">>, <<IntV(4), BoolV(TRUE)>>)>>
    /\ Get(Get(output, "init_state"), "balance") = IntV(16)
    /\ Get(Get(output, "event"), "amount") = IntV(15)

\* the LockedList objects of the schema
Lists == LockedSources(hist.rec0)

\* C8 (as claimed): at any moment __resolve__ and __strategize__ of a
\* LockedList return exactly the draw frozen at construction
C8_FrozenDraw ==
    \A l \in Lists :
        /\ LockedList_resolve(l, heap) = hist.frozen[l.n]
        /\ LockedList_strategize(l, heap) = {hist.frozen[l.n]}

\* C8 (amended): at any moment __strategize__ of a LockedList yields the one
\* list __resolve__ returns, of the length of the frozen draw, whose i-th
\* element is the i-th frozen element if that holds no deferred node
C8_StableDraw ==
    \A l \in Lists :
        LET cur    == LockedList_resolve(l, heap)
            frozen == hist.frozen[l.n]
        IN  /\ LockedList_strategize(l, heap) = {cur}
            /\ cur.t = "Locked"
            /\ Len(cur.kids) = Len(frozen.kids)
            /\ \A i \in 1..Len(frozen.kids) :
                  ~HasDeferred(frozen.kids[i]) => cur.kids[i] = frozen.kids[i]
            /\ (pc = "done" /\ HasKey(output, "items"))
                  => Get(output, "items") = cur

\* a frozen draw of one concrete item, after all passes over the record
C8_Witness ==
    /\ hist.name = "locked"
    /\ pc = "done"
    /\ hist.frozen[1].kids # <<>>
    /\ Get(output, "items") = hist.frozen[1]

\* C9: the aggregate and the reference that read a LockedList field hold, in
\* the output, the value computed from the list the output has for the field
C9_FrozenAggregate ==
    hist.name = "locked" /\ pc = "done" =>
        /\ Get(output, "total")
              = IntV(FilteredSum(Get(output, "items").kids, "ok"))
        /\ Get(output, "alias") = Get(output, "items")
        /\ Get(output, "items") = hist.frozen[1]

CallItems == Get(call.args[2], "items").kids

\* the sum of the amounts of the items the predicate pred holds for
RECURSIVE ManualSum(_, _)
ManualSum(items, pred) ==
    IF items = <<>> THEN 0
    ELSE (IF pred = PredTrue
             \/ (pred = PredKey("ok") /\ Get(Head(items), "ok") = BoolV(TRUE))
          THEN Get(Head(items), "amount").n ELSE 0)
         + ManualSum(Tail(items), pred)

\* C2: Range(min, max)(v) returns v when v is within the set bounds and
\* raises Invalid otherwise
C2_RangePredicate ==
    call.fn = "Range.__call__" /\ pc = "returned" =>
        LET min == call.args[1].kids[1]
            max == call.args[1].kids[2]
            v   == call.args[2]
        IN  call.res = IF /\ (min.t = "None" \/ v.n >= min.n)
                          /\ (max.t = "None" \/ v.n <= max.n)
                       THEN v ELSE Exc("Invalid")

\* C10: DefListAgg(sum, 'items.amount', predicate) resolves, on a concrete
\* list of items, to the sum of the amounts of the items the predicate holds
\* for, 0 for the empty list and for a predicate that holds for no item
C10_AggregateSum ==
    call.fn = "DefListAgg.__resolve__" /\ pc = "returned" =>
        call.res = IntV(ManualSum(CallItems, call.args[1].kids[1]))

\* two items of which the predicate holds for the second only
C10_Witness ==
    /\ call.fn = "DefListAgg.__resolve__"
    /\ pc = "returned"
    /\ call.args[1].kids[1] = PredKey("ok")
    /\ Len(CallItems) = 2
    /\ Get(CallItems[1], "ok") = BoolV(FALSE)
    /\ Get(CallItems[1], "amount") = IntV(3)
    /\ Get(CallItems[2], "ok") = BoolV(TRUE)
    /\ call.res = IntV(2)

\* C11: for a record without cross-field references, every further call of
\* __resolve__ returns a structure equal to the one the first call returned
C11_Idempotent ==
    hist.name = "free" =>
        \A i \in 1..Len(call.args) : call.args[i] = call.args[1]

\* a Range and a nested RecRecord resolved twice
C11_Witness ==
    /\ hist.name = "free"
    /\ pc = "returned"
    /\ Len(call.args) >= 2
    /\ Get(hist.rec0, "a") = Range(IntV(1), IntV(3))
    /\ Get(hist.rec0, "b").t = "RecRecord"
    /\ Get(call.args[2], "a") = Range(IntV(1), IntV(3))
    /\ Get(call.args[2], "b")
          = Dict(<<"x", "r">>, <<IntV(2), Range(IntV(1), IntV(1))>>)

\* C12: __resolve__ of a deferred value never raises, whatever the context
C12_Total ==
    call.fn = "__resolve__" /\ pc = "returned" => ~IsExc(call.res)

\* C13: strategize of a concrete integer, string, boolean or float is the
\* constant strategy of that value
C13_PrimitiveDispatch ==
    call.fn = "strategize" /\ pc = "returned"
        /\ call.args[1].t \in {"int", "str", "bool", "float"}
        => call.res = call.args[1]

\* following the segments of a path from d: the value reached, the mapping
\* that lacks the next segment, or the non-mapping value met before the end
RECURSIVE Walk(_, _)
Walk(d, path) ==
    IF path = <<>> THEN [st |-> "found", v |-> d]
    ELSE IF ~IsDictLike(d) THEN [st |-> "nonmapping", v |-> d]
    ELSE IF ~HasKey(d, Head(path)) THEN [st |-> "missing", v |-> d]
    ELSE Walk(Get(d, Head(path)), Tail(path))

CallWalk == Walk(call.args[2], call.args[1].p)
\* the value found at the path of the call: an empty mapping past a missing
\* segment
CallFound == IF CallWalk.st = "found" THEN CallWalk.v ELSE Dict(<<>>, <<>>)

C18_PathLookup ==
    call.fn = "__resolve__" /\ pc = "returned" /\ call.args[1].t = "Ref"
        => /\ CallWalk.st = "found" => call.res = CallWalk.v
           /\ CallWalk.st = "missing" => call.res = Dict(<<>>, <<>>)

\* 'z.b' looked up in a context without 'z'
C18_Witness ==
    /\ call.fn = "__resolve__"
    /\ pc = "returned"
    /\ call.args[1] = Ref(<<"z", "b">>)
    /\ HasKey(call.args[2], "a")
    /\ CallWalk.st = "missing"
    /\ call.res = Dict(<<>>, <<>>)

\* C19: strategize of None or of another object without a dispatch rule
\* raises an error
C19_ConfigError ==
    call.fn = "strategize" /\ pc = "returned"
        /\ call.args[1].t \in {"None", "tuple"}
        => IsExc(call.res)

\* res is the node schema with every Ref and DefRef in it replaced by the
\* value at its path in top; the elements of a LockedList are draws of its
\* source elements, and with own set an element that is a RecRecord takes the
\* place of top for the references inside it
RECURSIVE Resolved(_, _, _, _)
Resolved(schema, res, top, own) ==
    CASE schema.t \in {"Ref", "DefRef"} -> res = get_deep(top, schema.p)
      [] schema.t \in {"Range", "list", "dict", "RecRecord"} ->
            /\ res.t = (IF IsDictLike(schema) THEN "dict" ELSE schema.t)
            /\ res.p = schema.p
            /\ Len(res.kids) = Len(schema.kids)
            /\ \A i \in 1..Len(schema.kids) :
                  Resolved(schema.kids[i], res.kids[i], top, own)
      [] schema.t = "LockedList" ->
            /\ res.t = "Locked"
            /\ \A i \in 1..Len(res.kids) : \E j \in 1..Len(schema.kids) :
                  Resolved(schema.kids[j], res.kids[i],
                           IF own /\ schema.kids[j].t = "RecRecord"
                           THEN schema.kids[j] ELSE top, own)
      [] OTHER -> res = schema

\* every dict returned so far for the record has its references resolved
\* against the record as constructed
AllResolved(own) ==
    \A n \in 1..Len(call.args) : \A i \in 1..Len(hist.rec0.kids) :
        Resolved(hist.rec0.kids[i], call.args[n].kids[i], hist.rec0, own)

\* C14 (as claimed): every Ref and DefRef inside a nested mapping or nested
\* RecRecord of a record is resolved against the top-level record
C14_AlwaysAbsolute == hist.name = "nested" => AllResolved(FALSE)

\* C14 (amended): a Ref or DefRef inside a nested mapping or RecRecord that
\* the pass reaches through mappings, lists and Range bounds is resolved
\* against the top-level record; inside a RecRecord that is an element of a
\* LockedList it is resolved against that element
C14_AbsoluteInPass == hist.name = "nested" => AllResolved(TRUE)

\* a nested RecRecord with x = 2 whose Ref('x') became the top-level x = 1
C14_Witness ==
    /\ hist.name = "nested"
    /\ pc = "returned"
    /\ HasKey(hist.rec0, "inner")
    /\ Get(hist.rec0, "inner").t = "RecRecord"
    /\ HasKey(Get(hist.rec0, "inner"), "y")
    /\ Get(Get(hist.rec0, "inner"), "y") = Ref(<<"x">>)
    /\ Get(call.args[1], "x") = IntV(1)
    /\ Get(Get(call.args[1], "inner"), "x") = IntV(2)
    /\ Get(Get(call.args[1], "inner"), "y") = IntV(1)

\* C15: a pass starts with the field names in the record's insertion order
\* in its queue
C15_InsertionOrder ==
    pc = "resolve" /\ hist.popped = 0 => queue = rec.p

\* a pass is popping the field names of its queue
PassStep == pc = "resolve" /\ queue # <<>> /\ pc' = "resolve"

\* C16: the step of a pass for the field k changes the record at k only and
\* leaves the replacement of k in the record for the next step; a field k
\* that is a Ref gets the node its path reaches in the record as the earlier
\* steps of the pass left it, so the replacement of a field processed before
\* k in this pass, not the node that field held when the pass began
C16_WriteBack ==
    [][PassStep =>
        LET k == Head(queue)
            v == Get(rec, k)
        IN  /\ rec' = Put(rec, k, Get(rec', k))
            /\ queue' = Tail(queue)
            /\ v.t = "Ref" => Get(rec', k) = get_deep(rec, v.p)
      ]_vars

\* first pass over field0 = Ref('field1'), field1 = Ref('field2'), field2 = 7
\* in the order field1, field0, field2: field0 has just become 7, the
\* replacement of field1, and not Ref('field2'), the node field1 began with
C16_Witness ==
    /\ hist.name = "chain"
    /\ ChainLen = 2
    /\ order = <<"field1", "field0", "field2">>
    /\ round = 0
    /\ hist.passes = 0
    /\ hist.popped = 2
    /\ Get(hist.rec0, "field1") = Ref(<<"field2">>)
    /\ Get(rec, "field1") = IntV(7)
    /\ Get(rec, "field0") = IntV(7)

====
